---------------------------- MODULE Spec2Model ----------------------------
(***************************************************************************)
(* Model of the DroneDeploy email generation pipeline:                     *)
(*   main.py                   batch orchestrator, api_call_with_retry     *)
(*   utils/categorizer.py      categorize_company and its fallbacks        *)
(*   utils/email_generator.py  generate_email, reply parser, templates     *)
(*                                                                         *)
(* A text (a Python str) is a sequence of atoms.  An atom is a substring   *)
(* that the program never looks inside: a word, a fixed phrase, the        *)
(* whitespace atom " ", the line break "\n" or one of the reply markers.   *)
(* Concatenating the atoms of a text gives the Python string.              *)
(***************************************************************************)
EXTENDS Integers, Sequences, FiniteSets, TLC

VARIABLES
    mainpc,     \* position of main(): "init","fetch","gather","done","exit","test"
    apiKey,     \* config.GOOGLE_API_KEY is set
    source,     \* the records the speaker source will return
    cap,        \* config.MAX_CONCURRENT of this run
    speakers,   \* main's local `speakers`
    tasks,      \* one coroutine per record (or the single call of a unit test)
    sem,        \* value of the asyncio.Semaphore
    stats,      \* the global ExecutionStats instance
    csv,        \* rows written to OUTPUT_CSV
    reported,   \* print_execution_report() has run
    seen,       \* what the completion service has done so far: "reply",
                \* and the kinds of failure "quota" and "other"
    scrape      \* the frame of a fetch_speakers call awaited by a unit test

vars ==
    <<mainpc, apiKey, source, cap, speakers, tasks, sem, stats, csv, reported,
      seen, scrape>>

-----------------------------------------------------------------------------
(* Bounds of the model                                                     *)

\* longest list the speaker source returns
MaxSpeakers == 6
\* largest concurrency cap explored
MaxCap == 2
\* longest list explored under a cap above the default
MaxParallelSpeakers == 3

-----------------------------------------------------------------------------
(* config.py                                                               *)

\* MAX_CONCURRENT = 1
MAX_CONCURRENT == 1
\* API_DELAY = 0.1 seconds, in milliseconds
API_DELAY == 100
\* MAX_RETRIES = 3
MAX_RETRIES == 3
\* RETRY_STOP_AFTER_ATTEMPT = 3
RETRY_STOP_AFTER_ATTEMPT == 3
\* speakers[:5]
TEST_MODE_LIMIT == 5
\* EMAIL_SUBJECT_MAX_LENGTH = 100
EMAIL_SUBJECT_MAX_LENGTH == 100
\* EMAIL_BODY_MAX_LENGTH = 1000
EMAIL_BODY_MAX_LENGTH == 1000

TARGET_CATEGORIES == <<"Builder", "Owner">>

Categories == {"Builder", "Owner", "Competitor", "Partner", "Other"}

COMPETITORS ==
    << <<"Propeller">>, <<"DJI">>, <<"Skydio">>, <<"Pix4D">>, <<"Agisoft">>,
       <<"RealityCapture">>, <<"Bentley">>,
       <<"Autodesk", " ", "Civil", " ", "3D">>, <<"Topcon">>, <<"Leica">>,
       <<"Trimble">>, <<"Hexagon">>, <<"Faro">>, <<"3DR">>, <<"Parrot">>,
       <<"Yuneec">>, <<"Autel">> >>

PARTNERS ==
    << <<"Autodesk">>, <<"Procore">>, <<"Trimble">>, <<"Bentley">>,
       <<"Oracle">>, <<"SAP">>, <<"Microsoft">>, <<"Google">>, <<"Amazon">>,
       <<"IBM">>, <<"Salesforce">>, <<"ServiceNow">> >>

BUILDER_KEYWORDS ==
    << <<"contractor">>, <<"construction">>, <<"builder">>, <<"developer">>,
       <<"engineering">>, <<"architect">>, <<"design">>,
       <<"project", " ", "manager">>, <<"superintendent">>, <<"foreman">>,
       <<"general", " ", "contractor">>, <<"sub", "contractor">>,
       <<"specialty", " ", "contractor">> >>

OWNER_KEYWORDS ==
    << <<"owner">>, <<"client">>, <<"investor">>, <<"developer">>,
       <<"property", " ", "manager">>, <<"facility", " ", "manager">>,
       <<"asset", " ", "manager">>, <<"real", " ", "estate">>,
       <<"investment">> >>

-----------------------------------------------------------------------------
(* Python str operations on texts                                          *)

\* atoms that contain an upper-case letter, with their str.lower()
LowerPairs ==
    { <<"Propeller", "propeller">>, <<"DJI", "dji">>, <<"Skydio", "skydio">>,
      <<"Pix4D", "pix4d">>, <<"Agisoft", "agisoft">>,
      <<"RealityCapture", "realitycapture">>, <<"Bentley", "bentley">>,
      <<"Autodesk", "autodesk">>, <<"Civil", "civil">>, <<"3D", "3d">>,
      <<"Topcon", "topcon">>, <<"Leica", "leica">>, <<"Trimble", "trimble">>,
      <<"Hexagon", "hexagon">>, <<"Faro", "faro">>, <<"3DR", "3dr">>,
      <<"Parrot", "parrot">>, <<"Yuneec", "yuneec">>, <<"Autel", "autel">>,
      <<"Procore", "procore">>, <<"Oracle", "oracle">>, <<"SAP", "sap">>,
      <<"Microsoft", "microsoft">>, <<"Google", "google">>,
      <<"Amazon", "amazon">>, <<"IBM", "ibm">>, <<"Salesforce", "salesforce">>,
      <<"ServiceNow", "servicenow">>,
      <<"Project", "project">>, <<"Manager", "manager">>,
      <<"Construction", "construction">>, <<"ABC", "abc">>,
      <<"Aero", "aero">>, <<"CEO", "ceo">>, <<"Asset", "asset">>,
      <<"Acme", "acme">>, <<"Holdings", "holdings">>,
      <<"Developer", "developer">>, <<"Owner", "owner">>,
      <<"Corporation", "corporation">>, <<"Analyst", "analyst">>,
      <<"Widgets", "widgets">>, <<"PROPELLER", "propeller">>,
      <<"Pilot", "pilot">>, <<"Inc", "inc">>,
      <<"Real", "real">>, <<"Estate", "estate">>, <<"Property", "property">>,
      <<"Software", "software">>, <<"Engineer", "engineer">>,
      <<"Site", "site">>, <<"Superintendent", "superintendent">>,
      <<"Quota", "quota">>, <<"QUOTA", "quota">>,
      <<"Builder", "builder">>, <<"BUILDER", "builder">>,
      <<"OTHER", "other">>, <<"Other", "other">>,
      <<"InvalidCategory", "invalidcategory">>,
      <<"API Error", "api error">>,
      <<"Internal Server Error", "internal server error">>,
      <<"You exceeded your current", "you exceeded your current">>,
      <<"Resource exhausted", "resource exhausted">> }

\* one atom of str.lower()
LowerAtom(a) ==
    IF \E p \in LowerPairs : p[1] = a
    THEN (CHOOSE p \in LowerPairs : p[1] = a)[2]
    ELSE a

\* str.lower()
str_lower(s) == [i \in 1..Len(s) |-> LowerAtom(s[i])]

\* atoms of a one-word reply with their str.title()
TitlePairs ==
    { <<"builder", "Builder">>, <<"BUILDER", "Builder">>,
      <<"owner", "Owner">>, <<"OWNER", "Owner">>,
      <<"other", "Other">>, <<"OTHER", "Other">>,
      <<"InvalidCategory", "Invalidcategory">>,
      <<"competitor", "Competitor">>, <<"partner", "Partner">> }

TitleAtom(a) ==
    IF \E p \in TitlePairs : p[1] = a
    THEN (CHOOSE p \in TitlePairs : p[1] = a)[2]
    ELSE a

\* str.title()
str_title(s) == [i \in 1..Len(s) |-> TitleAtom(s[i])]

IsSpace(a) == a \in {" ", "\n"}

RECURSIVE str_lstrip(_)
str_lstrip(s) ==
    IF s # <<>> /\ IsSpace(Head(s)) THEN str_lstrip(Tail(s)) ELSE s

RECURSIVE str_rstrip(_)
str_rstrip(s) ==
    IF s # <<>> /\ IsSpace(s[Len(s)]) THEN str_rstrip(SubSeq(s, 1, Len(s) - 1))
    ELSE s

\* str.strip()
str_strip(s) == str_rstrip(str_lstrip(s))

\* Python `sub in s` for strings
Contains(sub, s) ==
    \E i \in 0..(Len(s) - Len(sub)) : SubSeq(s, i + 1, i + Len(sub)) = sub

\* str.startswith(marker), marker a single atom
str_startswith(s, marker) == s # <<>> /\ s[1] = marker

\* str.replace(marker, ''), marker a single atom
str_replace(s, marker) == SelectSeq(s, LAMBDA a : a # marker)

\* atoms that stand for a longer text, with the number of characters of
\* that text: the tails of the fallback templates and two long values of a
\* reply
AtomLens ==
    { <<"you know how important it is ... free gift!", 287>>,
      <<"you understand the value ... free gift!", 249>>,
      <<"DroneDeploy's aerial intelligence ... sites.", 116>>,
      <<"you'll see immediate value ... free gift!", 129>>,
      <<"<subject of 120 characters>", 120>>,
      <<"<body of 1200 characters>", 1200>> }

\* len() of one atom
AtomLen(a) ==
    IF \E p \in AtomLens : p[1] = a
    THEN (CHOOSE p \in AtomLens : p[1] = a)[2]
    ELSE Len(a)

\* len() of a text
RECURSIVE str_len(_)
str_len(s) == IF s = <<>> THEN 0 ELSE AtomLen(Head(s)) + str_len(Tail(s))

\* str.split('\n')
RECURSIVE str_split(_)
str_split(s) ==
    IF \A i \in 1..Len(s) : s[i] # "\n" THEN <<s>>
    ELSE LET k == CHOOSE i \in 1..Len(s) :
                      s[i] = "\n" /\ \A j \in 1..(i - 1) : s[j] # "\n"
         IN  <<SubSeq(s, 1, k - 1)>> \o str_split(SubSeq(s, k + 1, Len(s)))

-----------------------------------------------------------------------------
(* utils/categorizer.py: the synchronous parts                             *)

\* the loops without .lower() on the company and the title
MatchesList_CaseSensitive(list, company, title) ==
    \E k \in 1..Len(list) :
        \/ Contains(str_lower(list[k]), company)
        \/ Contains(str_lower(list[k]), title)

\* the `for entry in LIST` loops of categorize_company
MatchesList(list, company, title) ==
    \E k \in 1..Len(list) :
        \/ Contains(str_lower(list[k]), str_lower(company))
        \/ Contains(str_lower(list[k]), str_lower(title))

\* the stage without the partner loop
ManualCategory_NoPartners(company, title) ==
    IF company = <<>> \/ title = <<>> THEN "Other"
    ELSE IF MatchesList(COMPETITORS, company, title) THEN "Competitor"
    ELSE ""

\* the stage with the empty-input test after the manual lists
ManualCategory_ListsFirst(company, title) ==
    IF MatchesList(COMPETITORS, company, title) THEN "Competitor"
    ELSE IF MatchesList(PARTNERS, company, title) THEN "Partner"
    ELSE IF company = <<>> \/ title = <<>> THEN "Other"
    ELSE ""

\* the stage of categorize_company that runs before any service call:
\* the category it returns, or "" when the service is to be asked
ManualCategory(company, title) ==
    IF company = <<>> \/ title = <<>> THEN "Other"
    ELSE IF MatchesList(COMPETITORS, company, title) THEN "Competitor"
    ELSE IF MatchesList(PARTNERS, company, title) THEN "Partner"
    ELSE ""

\* a loop that gives up after its first keyword
KeywordHit_FirstOnly(keywords, title_lower) ==
    Contains(keywords[1], title_lower)

\* the `for keyword in LIST` loops of _classify_by_keywords
KeywordHit(keywords, title_lower) ==
    \E k \in 1..Len(keywords) : Contains(keywords[k], title_lower)

\* the owner keywords scanned before the builder keywords
classify_by_keywords_OwnerFirst(title) ==
    IF KeywordHit(OWNER_KEYWORDS, str_lower(title)) THEN "Owner"
    ELSE IF KeywordHit(BUILDER_KEYWORDS, str_lower(title)) THEN "Builder"
    ELSE "Other"

\* _classify_by_keywords
classify_by_keywords(title) ==
    IF KeywordHit(BUILDER_KEYWORDS, str_lower(title)) THEN "Builder"
    ELSE IF KeywordHit(OWNER_KEYWORDS, str_lower(title)) THEN "Owner"
    ELSE "Other"

\* the title's keywords preferred to the service's token
ClassifyReply_KeywordsFirst(reply, title) ==
    LET category == str_title(str_strip(reply))
    IN  IF classify_by_keywords(title) # "Other"
        THEN classify_by_keywords(title)
        ELSE IF category \in {<<"Builder">>, <<"Owner">>, <<"Other">>}
        THEN category[1]
        ELSE "Other"

\* _classify_with_gemini after the reply arrived: validate or fall back
ClassifyReply(reply, title) ==
    LET category == str_title(str_strip(reply))
    IN  IF category \in {<<"Builder">>, <<"Owner">>, <<"Other">>}
        THEN category[1]
        ELSE classify_by_keywords(title)

\* every category is a target
is_target_category_any(category) == category \in Categories

is_target_category(category) ==
    \E k \in 1..Len(TARGET_CATEGORIES) : TARGET_CATEGORIES[k] = category

-----------------------------------------------------------------------------
(* utils/email_generator.py: the synchronous parts                         *)

RECURSIVE ParseLines_FirstWins(_, _, _, _)
\* the loop keeping the value of the first line of each marker
ParseLines_FirstWins(lines, subject, body, current_section) ==
    IF lines = <<>> THEN [subject |-> subject, body |-> body]
    ELSE LET line == str_strip(Head(lines))
             rest == Tail(lines)
         IN  IF str_startswith(line, "SUBJECT:")
             THEN ParseLines_FirstWins(rest,
                      IF subject = <<>>
                      THEN str_strip(str_replace(line, "SUBJECT:"))
                      ELSE subject,
                      body, "subject")
             ELSE IF str_startswith(line, "BODY:")
             THEN ParseLines_FirstWins(rest, subject,
                      IF body = <<>>
                      THEN str_strip(str_replace(line, "BODY:"))
                      ELSE body,
                      "body")
             ELSE IF current_section = "body" /\ line # <<>>
             THEN ParseLines_FirstWins(rest, subject, body \o <<" ">> \o line,
                                       current_section)
             ELSE ParseLines_FirstWins(rest, subject, body, current_section)

RECURSIVE ParseLines(_, _, _, _)
\* the `for line in lines` loop of _parse_email_response
ParseLines(lines, subject, body, current_section) ==
    IF lines = <<>> THEN [subject |-> subject, body |-> body]
    ELSE LET line == str_strip(Head(lines))
             rest == Tail(lines)
         IN  IF str_startswith(line, "SUBJECT:")
             THEN ParseLines(rest, str_strip(str_replace(line, "SUBJECT:")), body,
                             "subject")
             ELSE IF str_startswith(line, "BODY:")
             THEN ParseLines(rest, subject, str_strip(str_replace(line, "BODY:")),
                             "body")
             ELSE IF current_section = "body" /\ line # <<>>
             THEN ParseLines(rest, subject, body \o <<" ">> \o line,
                             current_section)
             ELSE ParseLines(rest, subject, body, current_section)

parse_email_response(content) == ParseLines(str_split(content), <<>>, <<>>, "None")

generate_fallback_email(name, title, company, category) ==
    IF category = "Builder" THEN
        [subject |-> <<"See how", " ">> \o company \o
                     <<" ", "can streamline construction with aerial intelligence">>,
         body |-> <<"Hi", " ">> \o name \o <<",", " ", "as a", " ">> \o title
                  \o <<" ", "at", " ">> \o company \o
                  <<",", " ", "you know how important it is ... free gift!">>]
    ELSE IF category = "Owner" THEN
        [subject |-> <<"Monitor your", " ">> \o company \o
                     <<" ", "construction investments with aerial intelligence">>,
         body |-> <<"Hi", " ">> \o name \o <<",", " ", "as a", " ">> \o title
                  \o <<" ", "at", " ">> \o company \o
                  <<",", " ", "you understand the value ... free gift!">>]
    ELSE
        [subject |-> <<"Discover how", " ">> \o company \o
                     <<" ", "can benefit from construction aerial intelligence">>,
         body |-> <<"Hi", " ">> \o name \o
                  <<",", " ", "DroneDeploy's aerial intelligence ... sites.",
                    " ", "As a", " ">> \o title \o <<" ", "at", " ">> \o company
                  \o <<",", " ", "you'll see immediate value ... free gift!">>]

\* the test `if subject:` in place of `if subject and body:`
EmailFromReply_SubjectOnly(reply, sp, category) ==
    LET parsed == parse_email_response(str_strip(reply))
    IN  IF parsed.subject # <<>> THEN parsed
        ELSE generate_fallback_email(sp.name, sp.title, sp.company, category)

\* _generate_email_content after the reply arrived: parse or fall back
EmailFromReply(reply, sp, category) ==
    LET parsed == parse_email_response(str_strip(reply))
    IN  IF parsed.subject # <<>> /\ parsed.body # <<>> THEN parsed
        ELSE generate_fallback_email(sp.name, sp.title, sp.company, category)

-----------------------------------------------------------------------------
(* The completion service and the mock operation of the unit tests         *)

Outcome(kind, text) == [kind |-> kind, text |-> text]

\* texts the completion service may answer with
Replies ==
    { <<"Builder">>,
      <<" ", "owner", "\n">>,
      <<"OTHER">>,
      <<"InvalidCategory">>,
      <<"SUBJECT:", " ", "Aerial insights", "\n", "BODY:", " ", "Visit booth #42">>,
      <<"SUBJECT:", " ", "Aerial insights", "\n", "BODY:", "\n", "Visit booth #42">>,
      <<"SUBJECT:", " ", "Aerial insights">>,
      <<"Hello there">>,
      <<"SUBJECT:", " ", "<subject of 120 characters>", "\n",
        "BODY:", " ", "<body of 1200 characters>">> }

\* subjects and bodies of a reply in the requested format: one line each,
\* trimmed, not empty; one of each quotes a marker
SubjectTexts ==
    { <<"Aerial insights">>, <<"Re:", " ", "SUBJECT:", " ", "drones">> }

BodyTexts ==
    { <<"Visit booth #42">>, <<"See", " ", "BODY:", " ", "below">> }

\* the reply the prompt asks for: "SUBJECT: X\nBODY: Y"
FormattedReply(X, Y) ==
    <<"SUBJECT:", " ">> \o X \o <<"\n", "BODY:", " ">> \o Y

\* a formatted reply followed by a second subject line
SecondSubjectReply(X, Y, X2) ==
    FormattedReply(X, Y) \o <<"\n", "SUBJECT:", " ">> \o X2

\* a formatted reply, a continuation line of the body, a second body line
SecondBodyReply(X, Y, more, Y2) ==
    FormattedReply(X, Y) \o <<"\n">> \o more \o <<"\n", "BODY:", " ">> \o Y2

\* the body line and a continuation line first, then the subject line and
\* one more line
SubjectAfterBodyReply(Y, more, X, last) ==
    <<"BODY:", " ">> \o Y \o <<"\n">> \o more
        \o <<"\n", "SUBJECT:", " ">> \o X \o <<"\n">> \o last

\* replies with a marker line that comes late
LateMarkerReplies ==
    { SecondSubjectReply(<<"Aerial insights">>, <<"Visit booth #42">>,
                         <<"Second subject">>),
      SecondBodyReply(<<"Aerial insights">>, <<"Visit booth #42">>,
                      <<"Free gift inside">>, <<"Second body">>),
      SubjectAfterBodyReply(<<"Visit booth #42">>, <<"Free gift inside">>,
                            <<"Aerial insights">>, <<"See you there">>) }

\* texts the completion service may answer generate_email's unit test with:
\* those above, every formatted reply, and replies without the subject
\* marker, with an empty subject, with an empty body
UnitReplies ==
    Replies
    \cup {FormattedReply(X, Y) : X \in SubjectTexts, Y \in BodyTexts}
    \cup LateMarkerReplies
    \cup { <<"BODY:", " ", "Visit booth #42">>,
           <<"SUBJECT:", "\n", "BODY:", " ", "Visit booth #42">>,
           <<"SUBJECT:", " ", "Aerial insights", "\n", "BODY:", " ", "\n">> }

\* messages of the exceptions the completion service (or a mock) may raise
ErrorMsgs ==
    { <<"429", " ", "You exceeded your current", " ", "quota">>,
      <<"Quota", " ", "exceeded">>,
      <<"Resource exhausted", ":", " ", "429">>,
      <<"500", " ", "Internal Server Error">>,
      <<"API Error">> }

\* the messages that are quota-flavored: they contain "429" or, in any case,
\* "quota"
QuotaMsgs ==
    { <<"429", " ", "You exceeded your current", " ", "quota">>,
      <<"Quota", " ", "exceeded">>,
      <<"Resource exhausted", ":", " ", "429">> }

\* what one invocation of a mock operation does
MockOutcomes ==
    {Outcome("ret", <<"success">>)} \cup {Outcome("exc", m) : m \in ErrorMsgs}

NoOutcome == Outcome("none", <<>>)

-----------------------------------------------------------------------------
(* Coroutines.  A task is one coroutine stack: process_speaker (caller     *)
(* "process_speaker"), a unit test awaiting api_call_with_retry(mock)      *)
(* (caller "wrapper_test") or a unit test awaiting categorize_company or   *)
(* generate_email (caller "direct").  The operators below take and return  *)
(* a world w = [t |-> the task, st |-> ExecutionStats] and run the code    *)
(* from one suspension point to the next.  An optional Python value is a   *)
(* sequence of length 0 (None) or 1.                                       *)

NewTask(caller, fn, sp, category) ==
    [pc |-> "start", caller |-> caller, fn |-> fn, sp |-> sp,
     attempt |-> 0, tries |-> 0, category |-> category,
     ret |-> <<>>, raised |-> <<>>,
     catInv |-> 0, genInv |-> 0, calls |-> 0,
     hist |-> <<>>, slept |-> <<>>, rank |-> 0]

NewStats ==
    [total_speakers_scanned |-> 0, speakers_processed |-> 0,
     category_counts |-> [c \in Categories |-> 0],
     api_errors |-> 0, emails_generated |-> 0, speakers_skipped |-> 0]

\* the counts kept for the target categories only
increment_category_TargetsOnly(st, category) ==
    IF category \in {"Builder", "Owner"}
    THEN [st EXCEPT !.category_counts[category] = @ + 1]
    ELSE st

increment_category(st, category) ==
    IF category \in DOMAIN st.category_counts
    THEN [st EXCEPT !.category_counts[category] = @ + 1]
    ELSE st

increment_api_error(st) == [st EXCEPT !.api_errors = @ + 1]

increment_processed(st) == [st EXCEPT !.speakers_processed = @ + 1]

increment_emails_generated(st) == [st EXCEPT !.emails_generated = @ + 1]

increment_skipped(st) == [st EXCEPT !.speakers_skipped = @ + 1]

\* the call log of a mock (unittest.mock records calls; the real client does not)
Log(w, o) ==
    IF w.t.caller = "process_speaker" THEN w
    ELSE [w EXCEPT !.t.hist = Append(@, o)]

\* the frame of a finished coroutine is gone: its loop variables and the
\* count of service calls of the operation it was running
Unwind(t) == [t EXCEPT !.pc = "done", !.attempt = 0, !.tries = 0, !.calls = 0]

\* the coroutine returns `ret` to the event loop / the test
Finish(w, ret) == [w EXCEPT !.t = [Unwind(@) EXCEPT !.ret = ret]]

\* the coroutine ends with an exception
Escape(w, msg) == [w EXCEPT !.t = [Unwind(@) EXCEPT !.raised = <<msg>>]]

\* `await gemini_client.generate_content_async(prompt)` is issued
AwaitGemini(w) == [w EXCEPT !.t.pc = "gemini", !.t.calls = @ + 1]

\* generate_email up to its first await: first attempt of
\* _generate_email_content
generate_email(w) ==
    AwaitGemini([w EXCEPT !.t.genInv = @ + 1, !.t.tries = 1, !.t.calls = 0])

OutputRow(sp, category, email) ==
    [name |-> sp.name, title |-> sp.title, company |-> sp.company,
     category |-> category, subject |-> email.subject, body |-> email.body]

\* the row returned without increment_emails_generated()
AfterEmail_RowNotCounted(w, val) ==
    IF val = <<>>
    THEN Finish([w EXCEPT !.st = increment_api_error(@)], <<>>)
    ELSE Finish(w, <<OutputRow(w.t.sp, w.t.category, val[1])>>)

\* process_speaker after `email_content = await api_call_with_retry(...)`
AfterEmail(w, val) ==
    IF val = <<>>
    THEN Finish([w EXCEPT !.st = increment_api_error(@)], <<>>)
    ELSE Finish([w EXCEPT !.st = increment_emails_generated(@)],
                <<OutputRow(w.t.sp, w.t.category, val[1])>>)

\* the skip branch without its `return None`
AfterCategory_SkipFallsThrough(w, val) ==
    IF val = <<>> \/ val[1] = ""
    THEN Finish([w EXCEPT !.st = increment_api_error(@)], <<>>)
    ELSE LET category == val[1]
             w1 == [w EXCEPT !.t.category = category,
                             !.st = increment_processed(
                                        increment_category(@, category))]
         IN  IF ~is_target_category(category)
             THEN generate_email([w1 EXCEPT !.st = increment_skipped(@),
                                            !.t.fn = "gen", !.t.attempt = 0])
             ELSE generate_email([w1 EXCEPT !.t.fn = "gen", !.t.attempt = 0])

\* process_speaker after `category = await api_call_with_retry(...)`
AfterCategory(w, val) ==
    IF val = <<>> \/ val[1] = ""
    THEN Finish([w EXCEPT !.st = increment_api_error(@)], <<>>)
    ELSE LET category == val[1]
             w1 == [w EXCEPT !.t.category = category,
                             !.st = increment_processed(
                                        increment_category(@, category))]
         IN  IF ~is_target_category(category)
             THEN Finish([w1 EXCEPT !.st = increment_skipped(@)], <<>>)
             ELSE generate_email([w1 EXCEPT !.t.fn = "gen", !.t.attempt = 0])

\* process_speaker's `except Exception`
ProcessSpeakerExcept(w, msg) ==
    Finish([w EXCEPT !.st = increment_api_error(@)], <<>>)

\* api_call_with_retry returns `val` to its caller
WrapperReturns(w, val) ==
    IF w.t.caller = "wrapper_test" THEN Finish(w, val)
    ELSE IF w.t.fn = "cat" THEN AfterCategory(w, val)
    ELSE AfterEmail(w, val)

\* api_call_with_retry raises to its caller
WrapperRaises(w, msg) ==
    IF w.t.caller = "wrapper_test" THEN Escape(w, msg)
    ELSE ProcessSpeakerExcept(w, msg)

\* the test without .lower()
IsQuotaError_CaseSensitive(error_msg) ==
    \/ Contains(<<"429">>, error_msg)
    \/ Contains(<<"quota">>, error_msg)

\* `"429" in error_msg or "quota" in error_msg.lower()`
IsQuotaError(error_msg) ==
    \/ Contains(<<"429">>, error_msg)
    \/ Contains(<<"quota">>, str_lower(error_msg))

RECURSIVE Pow2(_)
Pow2(n) == IF n = 0 THEN 1 ELSE 2 * Pow2(n - 1)

\* the handler with `attempt < MAX_RETRIES`: the last failure is slept on
\* and the loop falls through to `return None`
RetryExcept_NoFinalRaise(w, msg) ==
    IF IsQuotaError(msg)
    THEN IF w.t.attempt < MAX_RETRIES
         THEN [w EXCEPT !.t.pc = "backoff",
                        !.t.slept = Append(@, API_DELAY * Pow2(w.t.attempt))]
         ELSE WrapperRaises(w, msg)
    ELSE WrapperRaises(w, msg)

\* the handler without the quota test: every exception is retried
RetryExcept_RetryAll(w, msg) ==
    IF w.t.attempt < MAX_RETRIES - 1
    THEN [w EXCEPT !.t.pc = "backoff",
                   !.t.slept = Append(@, API_DELAY * Pow2(w.t.attempt))]
    ELSE WrapperRaises(w, msg)

\* api_call_with_retry's `except Exception as e`
RetryExcept(w, msg) ==
    IF IsQuotaError(msg)
    THEN IF w.t.attempt < MAX_RETRIES - 1
         THEN [w EXCEPT !.t.pc = "backoff",
                        !.t.slept = Append(@, API_DELAY * Pow2(w.t.attempt))]
         ELSE WrapperRaises(w, msg)
    ELSE WrapperRaises(w, msg)

\* the awaited operation returned `val`
FuncReturns(w, val) ==
    IF w.t.caller = "direct" THEN Finish(w, val) ELSE WrapperReturns(w, val)

\* the awaited operation raised
FuncRaises(w, msg) ==
    IF w.t.caller = "direct" THEN Escape(w, msg) ELSE RetryExcept(w, msg)

\* the service asked without looking at the inputs or the manual lists
categorize_company_ServiceFirst(w) ==
    AwaitGemini([w EXCEPT !.t.catInv = @ + 1, !.t.tries = 1, !.t.calls = 0])

\* categorize_company up to its first await: empty inputs, manual lists,
\* else the first attempt of _classify_with_gemini
categorize_company(w) ==
    LET w1 == [w EXCEPT !.t.catInv = @ + 1]
        manual == ManualCategory(w.t.sp.company, w.t.sp.title)
    IN  IF manual # "" THEN FuncReturns(w1, <<manual>>)
        ELSE AwaitGemini([w1 EXCEPT !.t.tries = 1, !.t.calls = 0])

\* categorize_company without its handler
categorize_company_reraise(w, msg) == FuncRaises(w, msg)

\* categorize_company's `except Exception`: keyword fallback
categorize_company_except(w, msg) ==
    FuncReturns(w, <<classify_by_keywords(w.t.sp.title)>>)

\* generate_email without its handler
generate_email_reraise(w, msg) == FuncRaises(w, msg)

\* the handler returning None in place of the fallback template
generate_email_except_ReturnsNone(w, msg) == FuncReturns(w, <<>>)

\* generate_email's `except Exception`: fallback template
generate_email_except(w, msg) ==
    FuncReturns(w, <<generate_fallback_email(w.t.sp.name, w.t.sp.title,
                                             w.t.sp.company, w.t.category)>>)

\* stop_after_attempt(RETRY_STOP_AFTER_ATTEMPT + 1)
TenacityRetries_OneMore(tries, msg) == tries <= RETRY_STOP_AFTER_ATTEMPT

\* tenacity: stop_after_attempt, retry_if_exception_type((Exception,))
TenacityRetries(tries, msg) == tries < RETRY_STOP_AFTER_ATTEMPT

\* generate_content_async raised: the function re-raises, tenacity waits and
\* retries or (reraise=True) hands the exception to the enclosing except
GeminiRaised(w, msg) ==
    IF TenacityRetries(w.t.tries, msg)
    THEN [w EXCEPT !.t.pc = "tenacity_wait"]
    ELSE IF w.t.fn = "cat" THEN categorize_company_except(w, msg)
    ELSE generate_email_except(w, msg)

\* an invalid token raised inside the try block, where tenacity retries it
GeminiReplied_InvalidRaises(w, reply) ==
    IF w.t.fn = "cat"
    THEN IF str_title(str_strip(reply))
                \in {<<"Builder">>, <<"Owner">>, <<"Other">>}
         THEN FuncReturns(w, <<ClassifyReply(reply, w.t.sp.title)>>)
         ELSE GeminiRaised(w, <<"Invalid response">>)
    ELSE FuncReturns(w, <<EmailFromReply(reply, w.t.sp, w.t.category)>>)

\* generate_content_async returned a reply
GeminiReplied(w, reply) ==
    IF w.t.fn = "cat"
    THEN FuncReturns(w, <<ClassifyReply(reply, w.t.sp.title)>>)
    ELSE FuncReturns(w, <<EmailFromReply(reply, w.t.sp, w.t.category)>>)

\* `result = await func(*args, **kwargs)`; `o` is what a mock does this time
Invoke(w, o) ==
    IF w.t.fn = "cat" THEN categorize_company(w)
    ELSE IF w.t.fn = "gen" THEN generate_email(w)
    ELSE IF w.t.fn = "kw"
    THEN FuncReturns(w, <<classify_by_keywords(w.t.sp.title)>>)
    ELSE IF o.kind = "ret" THEN FuncReturns(Log(w, o), <<o.text>>)
    ELSE FuncRaises(Log(w, o), o.text)

\* api_call_with_retry from its entry to the first suspension
api_call_with_retry(w, fn, o) ==
    Invoke([w EXCEPT !.t.fn = fn, !.t.attempt = 0], o)

\* an asyncio.sleep is over and its coroutine resumes
Resume(w, o) ==
    CASE w.t.pc = "delay" -> api_call_with_retry(w, "cat", o)
      [] w.t.pc = "tenacity_wait" ->
            AwaitGemini([w EXCEPT !.t.tries = @ + 1])
      [] w.t.pc = "backoff" ->
            \* `continue`: next iteration of `for attempt in range(MAX_RETRIES)`
            IF w.t.attempt + 1 < MAX_RETRIES
            THEN [w EXCEPT !.t.attempt = @ + 1, !.t.pc = "presleep",
                           !.t.slept = Append(@, API_DELAY * (w.t.attempt + 1))]
            ELSE WrapperReturns(w, <<>>)
      [] w.t.pc = "presleep" -> Invoke(w, o)

-----------------------------------------------------------------------------
(* Inputs                                                                  *)

Speaker(name, title, company) ==
    [name |-> name, title |-> title, company |-> company]

\* records the speaker source yields, by kind: service-classified with a
\* builder title, competitor, service-classified with an owner title, partner
SpeakerPool ==
    << Speaker(<<"John", " ", "Smith">>, <<"Project", " ", "Manager">>,
               <<"ABC", " ", "Construction">>),
       Speaker(<<"Jane", " ", "Doe">>, <<"CEO">>, <<"Propeller", " ", "Aero">>),
       Speaker(<<"Ann", " ", "Lee">>, <<"Asset", " ", "Manager">>,
               <<"Acme", " ", "Holdings">>),
       Speaker(<<"Raj", " ", "Patel">>, <<"Developer">>,
               <<"Microsoft", " ", "Corporation">>) >>

\* the lists the speaker source may return: n records of the pool, in the
\* pool's cyclic order from any starting point
Sources ==
    { [i \in 1..n |-> SpeakerPool[((i - 1 + r) % Len(SpeakerPool)) + 1]] :
        n \in 0..MaxSpeakers, r \in 0..(Len(SpeakerPool) - 1) }

\* companies and titles given to categorize_company in isolation
UnitCompanies ==
    { <<>>, <<"ABC", " ", "Construction">>, <<"Propeller", " ", "Aero">>,
      <<"PROPELLER">>, <<"Microsoft", " ", "Corporation">>, <<"Trimble">>,
      <<"Autodesk">>, <<"Autodesk", " ", "Civil", " ", "3D">>,
      <<"Acme", " ", "Holdings">>, <<"Widgets", " ", "Inc">> }

UnitTitles ==
    { <<>>, <<"Project", " ", "Manager">>, <<"CEO">>, <<"Developer">>,
      <<"Owner">>, <<"Asset", " ", "Manager">>, <<"DJI", " ", "Pilot">>,
      <<"Oracle", " ", "Analyst">> }

\* titles given to _classify_by_keywords in isolation
KeywordTitles ==
    UnitTitles
    \cup { <<"Real", " ", "Estate", " ", "Developer">>,
           <<"Property", " ", "Owner">>,
           <<"Software", " ", "Engineer">>,
           <<"Site", " ", "Superintendent">> }

\* the calls of the unit tests: the wrapper around a mock, categorize_company
\* alone, generate_email alone, _classify_by_keywords alone
UnitTasks ==
    {NewTask("wrapper_test", "mock", SpeakerPool[1], "")}
    \cup {NewTask("direct", "cat", Speaker(<<"Pat">>, t, c), "") :
            c \in UnitCompanies, t \in UnitTitles}
    \cup {NewTask("direct", "gen", SpeakerPool[k], c) :
            k \in 1..Len(SpeakerPool), c \in {"Builder", "Owner", "Other"}}
    \cup {NewTask("direct", "kw", Speaker(<<"Pat">>, t, <<>>), "") :
            t \in KeywordTitles}

-----------------------------------------------------------------------------
(* utils/scraper.py: fetch_speakers                                        *)

\* the frame of fetch_speakers(url, fallback_path): whether a fallback path
\* is given and the file exists, how the two scrapes ended (none yet: <<>>),
\* and what the call returned or raised
ScrapeFrame(pc, path, exists) ==
    [pc |-> pc, path |-> path, exists |-> exists,
     live |-> <<>>, local |-> <<>>, ret |-> <<>>, raised |-> <<>>]

\* no fetch_speakers call is being tested
NoScrape == ScrapeFrame("idle", FALSE, FALSE)

\* how a scrape ended: it returned the records it parsed, or it raised
Scraped(kind, recs) == [kind |-> kind, recs |-> recs]

\* fetch_speakers returns
ScrapeReturn(s, recs) == [s EXCEPT !.pc = "done", !.ret = <<recs>>]

\* fetch_speakers after the live attempt: the local file, when a path is
\* given and the file exists, else `return []`
ScrapeFallback(s) ==
    IF s.path /\ s.exists THEN [s EXCEPT !.pc = "local"]
    ELSE ScrapeReturn(s, <<>>)

\* `speakers = await _scrape_live_url(url)` returned; `if speakers: return`
LiveScraped(s, recs) ==
    LET s1 == [s EXCEPT !.live = <<Scraped("ret", recs)>>]
    IN  IF recs # <<>> THEN ScrapeReturn(s1, recs) ELSE ScrapeFallback(s1)

\* the live scrape's exception leaving fetch_speakers
LiveFailed_Propagates(s) ==
    [s EXCEPT !.live = <<Scraped("exc", <<>>)>>, !.pc = "done",
              !.raised = <<"Network error">>]

\* _scrape_live_url raised: `except Exception`, then the fallback
LiveFailed(s) == ScrapeFallback([s EXCEPT !.live = <<Scraped("exc", <<>>)>>])

\* `speakers = await _scrape_local_file(fallback_path)` returned
LocalScraped(s, recs) ==
    ScrapeReturn([s EXCEPT !.local = <<Scraped("ret", recs)>>], recs)

\* _scrape_local_file raised: `except Exception`, then `return []`
LocalFailed(s) ==
    ScrapeReturn([s EXCEPT !.local = <<Scraped("exc", <<>>)>>], <<>>)

-----------------------------------------------------------------------------
(* Actions                                                                 *)

World(i) == [t |-> tasks[i], st |-> stats]

\* a slot that is taken and never given back
Apply_NoRelease(i, w) ==
    /\ tasks' = [tasks EXCEPT ![i] = w.t]
    /\ stats' = w.st
    /\ UNCHANGED <<mainpc, apiKey, source, cap, speakers, sem, csv, reported, scrape>>

\* the coroutines that have ended
Ended == {j \in 1..Len(tasks) : tasks[j].pc = "done"}

\* task i moves to world w; leaving `async with semaphore` releases the slot.
\* `rank` keeps the position of the coroutine in the order of completion
\* (0 while it runs); the program does not read it.
Apply(i, w) ==
    /\ tasks' = [tasks EXCEPT ![i] =
                    IF w.t.pc = "done"
                    THEN [w.t EXCEPT !.rank = Cardinality(Ended) + 1]
                    ELSE w.t]
    /\ stats' = w.st
    /\ sem' = IF w.t.pc = "done" /\ w.t.caller = "process_speaker"
              THEN sem + 1 ELSE sem
    /\ UNCHANGED <<mainpc, apiKey, source, cap, speakers, csv, reported, scrape>>

\* what kind of exception a call of the completion service ended in
FailureKind(msg) == IF msg \in QuotaMsgs THEN "quota" ELSE "other"

\* what a mock invoked by task i may do (nothing for the real operations)
OutcomesFor(i) ==
    IF tasks[i].fn = "mock" THEN MockOutcomes ELSE {NoOutcome}

\* main() up to `await fetch_speakers(...)`
MainStart ==
    /\ mainpc = "init"
    /\ mainpc' = IF apiKey THEN "fetch" ELSE "exit"
    /\ UNCHANGED <<apiKey, source, cap, speakers, tasks, sem, stats, csv, reported,
                   seen, scrape>>

Min(a, b) == IF a < b THEN a ELSE b

\* every coroutine bound to the loop variable's last value
FetchReturns_LateBinding ==
    /\ mainpc = "fetch"
    /\ speakers' = source
    /\ stats' = [stats EXCEPT !.total_speakers_scanned = Len(source)]
    /\ IF source = <<>>
       THEN mainpc' = "exit" /\ UNCHANGED <<tasks, sem>>
       ELSE /\ mainpc' = "gather"
            /\ sem' = cap
            /\ tasks' = [i \in 1..Min(TEST_MODE_LIMIT, Len(source)) |->
                            NewTask("process_speaker", "none",
                                    source[Min(TEST_MODE_LIMIT, Len(source))],
                                    "")]
    /\ UNCHANGED <<apiKey, source, cap, csv, reported, seen, scrape>>

\* the first record read before the list is tested: speakers[0] of an empty
\* list raises IndexError out of main()
FetchReturns_FirstRecordRead ==
    /\ mainpc = "fetch"
    /\ speakers' = source
    /\ stats' = [stats EXCEPT !.total_speakers_scanned = Len(source)]
    /\ IF source = <<>>
       THEN mainpc' = "raised" /\ UNCHANGED <<tasks, sem>>
       ELSE /\ mainpc' = "gather"
            /\ sem' = cap
            /\ tasks' = [i \in 1..Min(TEST_MODE_LIMIT, Len(source)) |->
                            NewTask("process_speaker", "none", source[i], "")]
    /\ UNCHANGED <<apiKey, source, cap, csv, reported, seen, scrape>>

\* main() from the return of fetch_speakers to `await asyncio.gather(...)`
FetchReturns ==
    /\ mainpc = "fetch"
    /\ speakers' = source
    /\ stats' = [stats EXCEPT !.total_speakers_scanned = Len(source)]
    /\ IF source = <<>>
       THEN mainpc' = "exit" /\ UNCHANGED <<tasks, sem>>
       ELSE /\ mainpc' = "gather"
            /\ sem' = cap
            /\ tasks' = [i \in 1..Min(TEST_MODE_LIMIT, Len(source)) |->
                            NewTask("process_speaker", "none", source[i], "")]
    /\ UNCHANGED <<apiKey, source, cap, csv, reported, seen, scrape>>

\* task i waits at `async with semaphore`, is next in line, and a slot is
\* free
CanAcquire(i) ==
    /\ tasks[i].caller = "process_speaker"
    /\ tasks[i].pc = "start"
    /\ \A j \in 1..(i - 1) : tasks[j].pc # "start"
    /\ sem > 0

\* task i is suspended in an asyncio.sleep or a tenacity wait
Sleeping(i) ==
    tasks[i].pc \in {"delay", "tenacity_wait", "backoff", "presleep"}

\* task i is suspended in generate_content_async
Calling(i) == tasks[i].pc = "gemini"

\* gather has every result
AllDone == mainpc = "gather" /\ \A i \in 1..Len(tasks) : tasks[i].pc = "done"

\* entering without waiting for a free slot
Acquire_NoWait(i) ==
    /\ tasks[i].caller = "process_speaker"
    /\ tasks[i].pc = "start"
    /\ \A j \in 1..(i - 1) : tasks[j].pc # "start"
    /\ sem' = sem - 1
    /\ tasks' = [tasks EXCEPT ![i].pc = "delay"]
    /\ UNCHANGED <<mainpc, apiKey, source, cap, speakers, stats, csv, reported,
                   seen, scrape>>

\* `async with semaphore`: a waiting task takes a free slot.  gather starts
\* the tasks in list order and asyncio.Semaphore wakes its waiters first
\* come, first served, so the slots are taken in list order.
Acquire(i) ==
    /\ CanAcquire(i)
    /\ sem' = sem - 1
    /\ tasks' = [tasks EXCEPT ![i].pc = "delay"]
    /\ UNCHANGED <<mainpc, apiKey, source, cap, speakers, stats, csv, reported,
                   seen, scrape>>

\* a unit test awaits its call
Call(i) ==
    /\ tasks[i].caller # "process_speaker"
    /\ tasks[i].pc = "start"
    /\ \E o \in OutcomesFor(i) :
          Apply(i, IF tasks[i].caller = "wrapper_test"
                   THEN api_call_with_retry(World(i), tasks[i].fn, o)
                   ELSE Invoke(World(i), o))
    /\ UNCHANGED seen

\* an asyncio.sleep (or a tenacity wait) of task i is over
SleepDone(i) ==
    /\ Sleeping(i)
    /\ \E o \in OutcomesFor(i) : Apply(i, Resume(World(i), o))
    /\ UNCHANGED seen

\* the replies explored for task i's call
RepliesFor(i) ==
    IF tasks[i].caller = "process_speaker" THEN Replies ELSE UnitReplies

\* the completion service answers task i's call
ServiceReplies(i) ==
    /\ Calling(i)
    /\ \E reply \in RepliesFor(i) :
          Apply(i, GeminiReplied(Log(World(i), Outcome("reply", reply)), reply))
    /\ seen' = seen \cup {"reply"}

\* the completion service fails task i's call
ServiceRaises(i) ==
    /\ Calling(i)
    /\ \E msg \in ErrorMsgs :
          /\ Apply(i, GeminiRaised(Log(World(i), Outcome("exc", msg)), msg))
          /\ seen' = seen \cup {FailureKind(msg)}

RECURSIVE Flatten(_)
Flatten(seqs) == IF seqs = <<>> THEN <<>> ELSE Head(seqs) \o Flatten(Tail(seqs))

\* the results taken in the order of completion (asyncio.as_completed) and
\* not in the order of the awaitables
valid_results_CompletionOrder ==
    Flatten([k \in 1..Len(tasks) |->
               tasks[CHOOSE i \in 1..Len(tasks) : tasks[i].rank = k].ret])

\* `[r for r in results if r is not None and not isinstance(r, Exception)]`
valid_results == Flatten([i \in 1..Len(tasks) |-> tasks[i].ret])

\* main() after gather: filter, save, report
GatherDone ==
    /\ AllDone
    /\ csv' = valid_results
    /\ reported' = TRUE
    /\ mainpc' = "done"
    /\ UNCHANGED <<apiKey, source, cap, speakers, tasks, sem, stats, seen, scrape>>

-----------------------------------------------------------------------------
(* Specifications                                                          *)

\* a run of main()
Init ==
    /\ mainpc = "init"
    /\ apiKey \in BOOLEAN
    /\ source \in Sources
    /\ cap \in MAX_CONCURRENT..MaxCap
    /\ cap > MAX_CONCURRENT => Len(source) <= MaxParallelSpeakers
    /\ speakers = <<>>
    /\ tasks = <<>>
    /\ sem = 0
    /\ stats = NewStats
    /\ csv = <<>>
    /\ reported = FALSE
    /\ seen = {}
    /\ scrape = NoScrape

Next ==
    \/ MainStart
    \/ FetchReturns
    \/ \E i \in 1..Len(tasks) : Acquire(i)
    \/ \E i \in 1..Len(tasks) : SleepDone(i)
    \/ \E i \in 1..Len(tasks) : ServiceReplies(i)
    \/ \E i \in 1..Len(tasks) : ServiceRaises(i)
    \/ GatherDone

Spec == Init /\ [][Next]_vars

\* some step of Next is possible: the guards of its actions (every action
\* is a guard followed by assignments and choices from non-empty sets)
CanStep ==
    \/ mainpc \in {"init", "fetch"}
    \/ AllDone
    \/ \E i \in 1..Len(tasks) : CanAcquire(i) \/ Sleeping(i) \/ Calling(i)

\* the event loop runs a coroutine whenever one can run, and the completion
\* service ends every call with a reply or an error: a step is taken
\* whenever one stays possible.  This is weak fairness of Next, with
\* ENABLED <<Next>>_vars written out as CanStep.
Fairness == []<>(~CanStep) \/ []<><<Next>>_vars

FairSpec == Spec /\ Fairness

\* one call made by a unit test
UnitInit ==
    /\ mainpc = "test"
    /\ apiKey = FALSE
    /\ source = <<>>
    /\ cap = MAX_CONCURRENT
    /\ speakers = <<>>
    /\ tasks \in {<<t>> : t \in UnitTasks}
    /\ sem = 0
    /\ stats = NewStats
    /\ csv = <<>>
    /\ reported = FALSE
    /\ seen = {}
    /\ scrape = NoScrape

UnitNext ==
    \/ \E i \in 1..Len(tasks) : Call(i)
    \/ \E i \in 1..Len(tasks) : SleepDone(i)
    \/ \E i \in 1..Len(tasks) : ServiceReplies(i)
    \/ \E i \in 1..Len(tasks) : ServiceRaises(i)

UnitSpec == UnitInit /\ [][UnitNext]_vars

\* the main program and the records' tasks take no part in a scraper test
ScrapeOnly ==
    UNCHANGED <<mainpc, apiKey, source, cap, speakers, tasks, sem, stats, csv,
                reported, seen>>

\* a unit test awaits fetch_speakers, which awaits the live scrape
ScrapeCall ==
    /\ scrape.pc = "start"
    /\ scrape' = [scrape EXCEPT !.pc = "live"]
    /\ ScrapeOnly

\* the live scrape returns the records it parsed
LiveReturns ==
    /\ scrape.pc = "live"
    /\ \E recs \in Sources : scrape' = LiveScraped(scrape, recs)
    /\ ScrapeOnly

\* the live scrape raises (no connection, a status other than 200)
LiveRaises ==
    /\ scrape.pc = "live"
    /\ scrape' = LiveFailed(scrape)
    /\ ScrapeOnly

\* the local file is read and parsed
LocalReturns ==
    /\ scrape.pc = "local"
    /\ \E recs \in Sources : scrape' = LocalScraped(scrape, recs)
    /\ ScrapeOnly

\* the local file cannot be read
LocalRaises ==
    /\ scrape.pc = "local"
    /\ scrape' = LocalFailed(scrape)
    /\ ScrapeOnly

\* one call of fetch_speakers made by a unit test
FetchInit ==
    /\ mainpc = "test"
    /\ apiKey = FALSE
    /\ source = <<>>
    /\ cap = MAX_CONCURRENT
    /\ speakers = <<>>
    /\ tasks = <<>>
    /\ sem = 0
    /\ stats = NewStats
    /\ csv = <<>>
    /\ reported = FALSE
    /\ seen = {}
    /\ scrape \in {ScrapeFrame("start", path, exists) :
                     path \in BOOLEAN, exists \in BOOLEAN}

FetchNext ==
    \/ ScrapeCall
    \/ LiveReturns
    \/ LiveRaises
    \/ LocalReturns
    \/ LocalRaises

FetchSpec == FetchInit /\ [][FetchNext]_vars

-----------------------------------------------------------------------------
(* Properties                                                              *)

Tasks == 1..Len(tasks)

\* the tasks that hold a slot of the semaphore
Holders == {i \in Tasks : tasks[i].caller = "process_speaker"
                          /\ tasks[i].pc \notin {"start", "done"}}

IsExc(o) == o.kind = "exc"

IsQuotaExc(o) == o.kind = "exc" /\ o.text \in QuotaMsgs

IsOtherExc(o) == o.kind = "exc" /\ o.text \notin QuotaMsgs

AllExc(hist) == \A k \in 1..Len(hist) : IsExc(hist[k])

AllQuotaExc(hist) == \A k \in 1..Len(hist) : IsQuotaExc(hist[k])

UnitDone(i, caller, fn) ==
    tasks[i].caller = caller /\ tasks[i].fn = fn /\ tasks[i].pc = "done"

\* the run is over: every record ended as a row, skipped or error-counted,
\* every slot is free and the report is printed
RunComplete ==
    /\ mainpc = "done"
    /\ reported
    /\ sem = cap
    /\ \A i \in Tasks : tasks[i].pc = "done"
    /\ stats.emails_generated + stats.speakers_skipped + stats.api_errors
         = Len(tasks)

\* C1: whatever the completion service does, no record's coroutine ends
\* with an exception, and a batch that has started always reaches the state
\* where every record has a terminal outcome, every semaphore slot is
\* released and the end-of-run report has been printed.
C1_BatchNeverAborts ==
    /\ [](\A i \in Tasks : tasks[i].raised = <<>>)
    /\ (mainpc = "gather") ~> RunComplete

C1_Witness ==
    /\ RunComplete
    /\ Len(tasks) = TEST_MODE_LIMIT
    /\ seen = {"quota", "other"}

\* C2: at the end of a run every record the speaker source returned has
\* been classified exactly once, however many records it returned.
C2_EveryRecordClassifiedOnce ==
    mainpc = "done" =>
        \A k \in 1..Len(speakers) :
            /\ k \in Tasks
            /\ tasks[k].sp = speakers[k]
            /\ tasks[k].catInv = 1

IsOutputRow(row) ==
    /\ row.category \in {"Builder", "Owner"}
    /\ row.subject # <<>>
    /\ row.body # <<>>

\* C3: every row returned by a record's coroutine or written to the output
\* has category Builder or Owner and a non-empty subject and body, and a
\* record classified Competitor, Partner or Other has no row.
C3_RowsOnlyForTargets ==
    /\ \A i \in Tasks :
          tasks[i].caller = "process_speaker" =>
              /\ \A k \in 1..Len(tasks[i].ret) : IsOutputRow(tasks[i].ret[k])
              /\ tasks[i].category \in {"Competitor", "Partner", "Other"}
                    => tasks[i].ret = <<>>
    /\ \A k \in 1..Len(csv) : IsOutputRow(csv[k])

C3_Witness ==
    /\ mainpc = "done"
    /\ Len(csv) >= 2
    /\ \E i \in Tasks : tasks[i].category = "Other" /\ tasks[i].pc = "done"
    /\ \E i \in Tasks : tasks[i].category = "Competitor" /\ tasks[i].pc = "done"

\* C4: at every moment the number of records between taking and releasing
\* the semaphore slot is at most the concurrency cap.
C4_AtMostCapInFlight ==
    /\ Cardinality(Holders) <= cap
    /\ mainpc = "gather" => sem = cap - Cardinality(Holders)

C4_Witness ==
    /\ cap = MaxCap
    /\ Cardinality(Holders) = cap
    /\ \E i \in Tasks : tasks[i].pc = "start"
    /\ \E i \in Holders : tasks[i].pc = "gemini" /\ tasks[i].fn = "gen"

\* C5: categorize_company never raises and returns one of the five
\* categories, for every input and every behaviour of the service.
C5_CategorizeNeverRaises ==
    \A i \in Tasks :
        /\ tasks[i].caller = "direct" /\ tasks[i].fn = "cat"
              => tasks[i].raised = <<>>
        /\ UnitDone(i, "direct", "cat")
              => Len(tasks[i].ret) = 1 /\ tasks[i].ret[1] \in Categories

C5_Witness ==
    \E i \in Tasks :
        /\ UnitDone(i, "direct", "cat")
        /\ Len(tasks[i].hist) = RETRY_STOP_AFTER_ATTEMPT
        /\ AllExc(tasks[i].hist)
        /\ \E k \in 1..Len(tasks[i].hist) : IsQuotaExc(tasks[i].hist[k])
        /\ tasks[i].ret = <<"Builder">>

\* the fallback templates, as the email each category's record must get
IsFallbackFor(email, sp, category) ==
    /\ Contains(sp.company, email.subject)
    /\ Contains(sp.name, email.body)
    /\ Contains(sp.title, email.body)
    /\ Contains(sp.company, email.body)
    /\ email.subject[1] =
          (IF category = "Builder" THEN "See how"
           ELSE IF category = "Owner" THEN "Monitor your"
           ELSE "Discover how")

\* C6: generate_email never raises and returns a subject/body pair; when
\* every call of the completion service failed, the pair is the fallback
\* template of the category, filled in with the speaker.
C6_GenerateNeverRaises ==
    \A i \in Tasks :
        /\ tasks[i].caller = "direct" /\ tasks[i].fn = "gen"
              => tasks[i].raised = <<>>
        /\ UnitDone(i, "direct", "gen") =>
              /\ Len(tasks[i].ret) = 1
              /\ DOMAIN tasks[i].ret[1] = {"subject", "body"}
              /\ AllExc(tasks[i].hist) =>
                    /\ tasks[i].ret[1] =
                          generate_fallback_email(tasks[i].sp.name,
                              tasks[i].sp.title, tasks[i].sp.company,
                              tasks[i].category)
                    /\ IsFallbackFor(tasks[i].ret[1], tasks[i].sp,
                                     tasks[i].category)

C6_Witness ==
    \E i \in Tasks :
        /\ UnitDone(i, "direct", "gen")
        /\ tasks[i].category = "Owner"
        /\ Len(tasks[i].hist) = RETRY_STOP_AFTER_ATTEMPT
        /\ AllExc(tasks[i].hist)
        /\ tasks[i].ret[1].subject[1] = "Monitor your"

\* C7: when the operation's first invocation raises a quota-flavored error
\* the wrapper invokes it a second time, and when that invocation succeeds
\* the wrapper returns its value after exactly two invocations.
C7_QuotaThenSuccess ==
    \A i \in Tasks :
        (/\ UnitDone(i, "wrapper_test", "mock")
         /\ tasks[i].hist # <<>>
         /\ IsQuotaExc(tasks[i].hist[1]))
        => /\ Len(tasks[i].hist) >= 2
           /\ tasks[i].hist[2].kind = "ret" =>
                 /\ Len(tasks[i].hist) = 2
                 /\ tasks[i].ret = <<tasks[i].hist[2].text>>
                 /\ tasks[i].raised = <<>>

C7_Witness ==
    \E i \in Tasks :
        /\ UnitDone(i, "wrapper_test", "mock")
        /\ tasks[i].hist = <<Outcome("exc", <<"Quota", " ", "exceeded">>),
                             Outcome("ret", <<"success">>)>>
        /\ tasks[i].ret = << <<"success">> >>

\* C8: when every invocation of the operation raises a quota-flavored
\* error, the wrapper ends after exactly MAX_RETRIES invocations by raising
\* the operation's last exception, and returns nothing.
C8_QuotaAlways ==
    \A i \in Tasks :
        (/\ UnitDone(i, "wrapper_test", "mock")
         /\ AllQuotaExc(tasks[i].hist))
        => /\ Len(tasks[i].hist) = MAX_RETRIES
           /\ tasks[i].raised = <<tasks[i].hist[MAX_RETRIES].text>>
           /\ tasks[i].ret = <<>>

C8_Witness ==
    \E i \in Tasks :
        /\ UnitDone(i, "wrapper_test", "mock")
        /\ Len(tasks[i].hist) = MAX_RETRIES
        /\ AllQuotaExc(tasks[i].hist)
        /\ tasks[i].raised # <<>>

\* C9: an invocation that raises an error that is not quota-flavored is the
\* wrapper's last one: the wrapper is over at once, without sleeping, with
\* that exception; when it is the first invocation, the operation was
\* invoked exactly once.
C9_NonQuotaNotRetried ==
    \A i \in Tasks :
        tasks[i].caller = "wrapper_test" =>
            \A k \in 1..Len(tasks[i].hist) :
                IsOtherExc(tasks[i].hist[k]) =>
                    /\ k = Len(tasks[i].hist)
                    /\ tasks[i].pc = "done"
                    /\ tasks[i].raised = <<tasks[i].hist[k].text>>
                    /\ Len(tasks[i].slept) = 2 * (k - 1)

C9_Witness ==
    \E i \in Tasks :
        /\ UnitDone(i, "wrapper_test", "mock")
        /\ Len(tasks[i].hist) = 2
        /\ IsQuotaExc(tasks[i].hist[1])
        /\ tasks[i].hist[2] = Outcome("exc", <<"500", " ", "Internal Server Error">>)
        /\ tasks[i].raised = << <<"500", " ", "Internal Server Error">> >>

\* C10: while a record is classified or its email generated, a call of the
\* completion service that raises an error that is not a quota error is
\* the last call of that operation.
C10_NonQuotaCalledOnce ==
    \A i \in Tasks :
        tasks[i].caller = "direct" =>
            \A k \in 1..Len(tasks[i].hist) :
                IsOtherExc(tasks[i].hist[k]) => k = Len(tasks[i].hist)

RECURSIVE SumSeq(_)
SumSeq(s) == IF s = <<>> THEN 0 ELSE Head(s) + SumSeq(Tail(s))

\* the time slept between the k-th invocation and the next one: the sleeps
\* started after the k-th failure, two per failure
WaitAfter(slept, k) ==
    SumSeq(SubSeq(slept, 2 * k - 1, IF Len(slept) < 2 * k THEN Len(slept)
                                    ELSE 2 * k))

\* C11: between the k-th failed invocation (quota-flavored) and the
\* (k+1)-th invocation the wrapper waits API_DELAY * 2^(k-1) in total, and
\* it does not wait before the first invocation.
C11_BackoffDoubles ==
    \A i \in Tasks :
        tasks[i].caller = "wrapper_test" =>
            /\ tasks[i].hist = <<>> => tasks[i].slept = <<>>
            /\ \A k \in 1..(MAX_RETRIES - 1) :
                  (Len(tasks[i].hist) >= k + 1
                   /\ AllQuotaExc(SubSeq(tasks[i].hist, 1, k)))
                  => WaitAfter(tasks[i].slept, k) = API_DELAY * Pow2(k - 1)

\* some entry of the list is, in any case, a substring of the text
TextMatches(list, text) ==
    \E k \in 1..Len(list) : Contains(str_lower(list[k]), str_lower(text))

\* C12 as stated: a company that contains a competitor entry is classified
\* Competitor for every title, the empty title included.
C12_CompetitorAnyTitle ==
    \A i \in Tasks :
        (UnitDone(i, "direct", "cat")
         /\ TextMatches(COMPETITORS, tasks[i].sp.company))
        => tasks[i].ret = <<"Competitor">>

\* C12 (amended): a company that contains, in any case, an entry of the
\* competitor list is classified Competitor for every non-empty title,
\* whatever the service does.
C12_CompetitorNonEmptyTitle ==
    \A i \in Tasks :
        (UnitDone(i, "direct", "cat")
         /\ TextMatches(COMPETITORS, tasks[i].sp.company)
         /\ tasks[i].sp.title # <<>>)
        => tasks[i].ret = <<"Competitor">>

C12_Witness ==
    \E i \in Tasks :
        /\ UnitDone(i, "direct", "cat")
        /\ tasks[i].sp.company = <<"PROPELLER">>
        /\ tasks[i].sp.title = <<"Project", " ", "Manager">>
        /\ tasks[i].ret = <<"Competitor">>

\* C13 as stated: a company that contains a partner entry and no competitor
\* entry is classified Partner, whatever the title.
C13_PartnerAnyTitle ==
    \A i \in Tasks :
        (UnitDone(i, "direct", "cat")
         /\ TextMatches(PARTNERS, tasks[i].sp.company)
         /\ ~TextMatches(COMPETITORS, tasks[i].sp.company))
        => tasks[i].ret = <<"Partner">>

\* C13 (amended): a company that contains a partner entry and no competitor
\* entry is classified Partner when the title is not empty and contains no
\* competitor entry either.
C13_PartnerCleanTitle ==
    \A i \in Tasks :
        (UnitDone(i, "direct", "cat")
         /\ TextMatches(PARTNERS, tasks[i].sp.company)
         /\ ~TextMatches(COMPETITORS, tasks[i].sp.company)
         /\ tasks[i].sp.title # <<>>
         /\ ~TextMatches(COMPETITORS, tasks[i].sp.title))
        => tasks[i].ret = <<"Partner">>

C13_Witness ==
    \E i \in Tasks :
        /\ UnitDone(i, "direct", "cat")
        /\ tasks[i].sp.company = <<"Microsoft", " ", "Corporation">>
        /\ tasks[i].sp.title = <<"Developer">>
        /\ tasks[i].ret = <<"Partner">>

\* C14: with an empty company or an empty title categorize_company returns
\* Other at once: no manual list decides (a competitor's name with an empty
\* title is Other) and the service is not called.
C14_EmptyIsOther ==
    \A i \in Tasks :
        (tasks[i].caller = "direct" /\ tasks[i].fn = "cat"
         /\ (tasks[i].sp.company = <<>> \/ tasks[i].sp.title = <<>>))
        => /\ tasks[i].pc \in {"start", "done"}
           /\ tasks[i].hist = <<>>
           /\ tasks[i].pc = "done" => tasks[i].ret = <<"Other">>

C14_Witness ==
    \E i \in Tasks :
        /\ UnitDone(i, "direct", "cat")
        /\ tasks[i].sp.company = <<"Propeller", " ", "Aero">>
        /\ tasks[i].sp.title = <<>>
        /\ tasks[i].ret = <<"Other">>

\* C15: when every call of the completion service fails, a non-empty company
\* with a title that contains a builder keyword, neither of them matching a
\* competitor or partner entry, is classified Builder.
C15_BuilderWithoutService ==
    \A i \in Tasks :
        (/\ UnitDone(i, "direct", "cat")
         /\ tasks[i].sp.company # <<>>
         /\ TextMatches(BUILDER_KEYWORDS, tasks[i].sp.title)
         /\ ~TextMatches(COMPETITORS, tasks[i].sp.company)
         /\ ~TextMatches(COMPETITORS, tasks[i].sp.title)
         /\ ~TextMatches(PARTNERS, tasks[i].sp.company)
         /\ ~TextMatches(PARTNERS, tasks[i].sp.title)
         /\ AllExc(tasks[i].hist))
        => tasks[i].ret = <<"Builder">>

C15_Witness ==
    \E i \in Tasks :
        /\ UnitDone(i, "direct", "cat")
        /\ tasks[i].sp.company = <<"Acme", " ", "Holdings">>
        /\ tasks[i].sp.title = <<"Developer">>
        /\ Len(tasks[i].hist) = RETRY_STOP_AFTER_ATTEMPT
        /\ AllExc(tasks[i].hist)
        /\ tasks[i].ret = <<"Builder">>

\* the classification is decided before the service stage: an input is
\* empty, or the company or the title matches a manual list
DecidedManually(sp) ==
    \/ sp.company = <<>>
    \/ sp.title = <<>>
    \/ TextMatches(COMPETITORS, sp.company)
    \/ TextMatches(COMPETITORS, sp.title)
    \/ TextMatches(PARTNERS, sp.company)
    \/ TextMatches(PARTNERS, sp.title)

\* C16: a classification decided by the empty-input rule or by a manual
\* list makes no call of the completion service: none is pending and none
\* is recorded, at any moment of the classification.
C16_ManualMakesNoCall ==
    \A i \in Tasks :
        (tasks[i].caller = "direct" /\ tasks[i].fn = "cat"
         /\ DecidedManually(tasks[i].sp))
        => /\ tasks[i].hist = <<>>
           /\ tasks[i].calls = 0
           /\ tasks[i].pc \in {"start", "done"}
           /\ tasks[i].pc = "done" =>
                 tasks[i].ret \in {<<"Other">>, <<"Competitor">>, <<"Partner">>}

C16_Witness ==
    \E i \in Tasks :
        /\ UnitDone(i, "direct", "cat")
        /\ tasks[i].sp.company = <<"Widgets", " ", "Inc">>
        /\ tasks[i].sp.title = <<"Oracle", " ", "Analyst">>
        /\ tasks[i].ret = <<"Partner">>
        /\ tasks[i].hist = <<>>

\* the records classified outside the target categories
NonTarget == {i \in Tasks : tasks[i].caller = "process_speaker"
                            /\ tasks[i].category \in
                                  {"Competitor", "Partner", "Other"}}

\* C17: a record classified Competitor, Partner or Other adds exactly one
\* to the skipped counter and nothing to the emails-generated counter, is
\* over at once with no call of generate_email, and has no row, in the
\* task's result or in the output.
C17_NonTargetSkipped ==
    /\ stats.speakers_skipped = Cardinality(NonTarget)
    /\ stats.emails_generated =
          Cardinality({i \in Tasks \ NonTarget : tasks[i].ret # <<>>})
    /\ \A i \in NonTarget :
          /\ tasks[i].pc = "done"
          /\ tasks[i].genInv = 0
          /\ tasks[i].ret = <<>>
    /\ Len(csv) <= Cardinality(Tasks \ NonTarget)
    /\ \A k \in 1..Len(csv) :
          csv[k].category \notin {"Competitor", "Partner", "Other"}

C17_Witness ==
    /\ mainpc = "done"
    /\ Cardinality(NonTarget) = 3
    /\ stats.speakers_skipped = 3
    /\ stats.emails_generated = 2
    /\ Len(csv) = 2
    /\ \E i \in NonTarget : tasks[i].category = "Other"

\* the record is classified by its title's builder keyword when the service
\* is down: no input is empty and no manual list matches
BuilderByKeyword(sp) ==
    /\ TextMatches(BUILDER_KEYWORDS, sp.title)
    /\ ~DecidedManually(sp)

\* the row the record gets from the Builder fallback template
BuilderFallbackRow(sp) ==
    OutputRow(sp, "Builder",
              generate_fallback_email(sp.name, sp.title, sp.company, "Builder"))

\* C18: in a run where every call of the completion service failed, every
\* record of the source with a builder keyword in its title and no manual
\* match has exactly one row in the output, with category Builder and the
\* Builder fallback template, the company in its subject and in its body.
C18_OutageStillYieldsBuilderRow ==
    (mainpc = "done" /\ "reply" \notin seen) =>
        \A k \in 1..Len(speakers) :
            BuilderByKeyword(speakers[k]) =>
                /\ Cardinality({j \in 1..Len(csv) :
                                   /\ csv[j].name = speakers[k].name
                                   /\ csv[j].title = speakers[k].title
                                   /\ csv[j].company = speakers[k].company})
                     = Cardinality({j \in 1..Len(speakers) :
                                       speakers[j] = speakers[k]})
                /\ \E j \in 1..Len(csv) :
                      /\ csv[j] = BuilderFallbackRow(speakers[k])
                      /\ Contains(speakers[k].company, csv[j].subject)
                      /\ Contains(speakers[k].company, csv[j].body)

\* the reply has no line break after position k up to position e
SameLine(reply, k, e) == \A j \in (k + 1)..e : reply[j] # "\n"

\* the reply lacks a marker, or has nothing but blanks after the subject
\* marker on its line, or nothing but blanks after the body marker
MalformedReply(reply) ==
    \/ \A k \in 1..Len(reply) : reply[k] # "SUBJECT:"
    \/ \A k \in 1..Len(reply) : reply[k] # "BODY:"
    \/ \E k \in 1..Len(reply) :
          /\ reply[k] = "SUBJECT:"
          /\ \E e \in k..Len(reply) :
                /\ e = Len(reply) \/ reply[e + 1] = "\n"
                /\ SameLine(reply, k, e)
                /\ \A j \in (k + 1)..e : reply[j] = " "
    \/ \E k \in 1..Len(reply) :
          /\ reply[k] = "BODY:"
          /\ \A j \in (k + 1)..Len(reply) : IsSpace(reply[j])

\* C19: a reply to generate_email that lacks the subject marker or the body
\* marker, or leaves either value empty, is the last call of the completion
\* service for that email, and the generator returns the category's
\* fallback template with the speaker's name, title and company.
C19_MalformedReplyFallsBack ==
    \A i \in Tasks :
        (tasks[i].caller = "direct" /\ tasks[i].fn = "gen") =>
            \A k \in 1..Len(tasks[i].hist) :
                (tasks[i].hist[k].kind = "reply"
                 /\ MalformedReply(tasks[i].hist[k].text))
                => /\ k = Len(tasks[i].hist)
                   /\ tasks[i].pc = "done"
                   /\ tasks[i].raised = <<>>
                   /\ tasks[i].ret =
                         <<generate_fallback_email(tasks[i].sp.name,
                               tasks[i].sp.title, tasks[i].sp.company,
                               tasks[i].category)>>
                   /\ IsFallbackFor(tasks[i].ret[1], tasks[i].sp,
                                    tasks[i].category)

C19_Witness ==
    \E i \in Tasks :
        /\ UnitDone(i, "direct", "gen")
        /\ tasks[i].category = "Builder"
        /\ Len(tasks[i].hist) = 2
        /\ IsExc(tasks[i].hist[1])
        /\ tasks[i].hist[2] =
              Outcome("reply", <<"SUBJECT:", " ", "Aerial insights">>)
        /\ tasks[i].ret[1].subject[1] = "See how"

\* C20: for every one-line, trimmed, non-empty subject X and body Y, the
\* reply "SUBJECT: X\nBODY: Y" is parsed to exactly subject X and body Y.
C20_ParseRoundTrip ==
    \A i \in Tasks :
        (UnitDone(i, "direct", "gen") /\ tasks[i].hist # <<>>) =>
            \A X \in SubjectTexts, Y \in BodyTexts :
                tasks[i].hist[Len(tasks[i].hist)] =
                    Outcome("reply", FormattedReply(X, Y))
                => tasks[i].ret = <<[subject |-> X, body |-> Y]>>

\* the emails generate_email can give a record of a category: a parsed
\* reply of the service or the fallback template, both for that record
EmailsFor(sp, category) ==
    {EmailFromReply(reply, sp, category) : reply \in Replies}
    \cup {generate_fallback_email(sp.name, sp.title, sp.company, category)}

\* the rows of the records' coroutines, in the order of the records
RowsInOrder == Flatten([i \in 1..Len(tasks) |-> tasks[i].ret])

\* C21: the row of the i-th coroutine has the name, title and company of
\* the i-th record of the source, the category computed for that record and
\* an email generated for that record and category; the output holds these
\* rows and no others.  Runs with a cap above 1 are included.
C21_RowsMatchTheirRecord ==
    /\ \A i \in Tasks :
          tasks[i].caller = "process_speaker" =>
              \A k \in 1..Len(tasks[i].ret) :
                  /\ tasks[i].ret[k].name = speakers[i].name
                  /\ tasks[i].ret[k].title = speakers[i].title
                  /\ tasks[i].ret[k].company = speakers[i].company
                  /\ tasks[i].ret[k].category = tasks[i].category
                  /\ [subject |-> tasks[i].ret[k].subject,
                      body |-> tasks[i].ret[k].body]
                        \in EmailsFor(speakers[i], tasks[i].category)
    /\ mainpc = "done" => csv = RowsInOrder

C21_Witness ==
    /\ mainpc = "done"
    /\ cap = MaxCap
    /\ Len(csv) = 2
    /\ csv[1].name # csv[2].name
    /\ csv[1].subject = <<"Aerial insights">>
    /\ csv[2].subject[1] \in {"See how", "Monitor your"}

\* the records whose classification completed
Classified == {i \in Tasks : tasks[i].caller = "process_speaker"
                             /\ tasks[i].category # ""}

RECURSIVE SumOver(_, _)
SumOver(f, S) ==
    IF S = {} THEN 0
    ELSE LET c == CHOOSE x \in S : TRUE IN f[c] + SumOver(f, S \ {c})

\* C22: no statistics update is lost, for any cap and interleaving:
\* speakers_processed is the number of records whose classification
\* completed, each category's count is the number of records classified in
\* it, and the five counts add up to speakers_processed.
C22_NoLostUpdate ==
    /\ stats.speakers_processed = Cardinality(Classified)
    /\ \A c \in Categories :
          stats.category_counts[c] =
              Cardinality({i \in Classified : tasks[i].category = c})
    /\ SumOver(stats.category_counts, Categories) = stats.speakers_processed

C22_Witness ==
    /\ mainpc = "done"
    /\ cap = MaxCap
    /\ stats.speakers_processed = MaxParallelSpeakers
    /\ stats.category_counts["Builder"] = 1
    /\ stats.category_counts["Competitor"] = 1
    /\ stats.category_counts["Other"] = 1

\* C23: every row of a run, in a coroutine's result or in the output, has a
\* subject of at most EMAIL_SUBJECT_MAX_LENGTH characters and a body of at
\* most EMAIL_BODY_MAX_LENGTH characters.
C23_RowsWithinLimits ==
    /\ \A i \in Tasks :
          tasks[i].caller = "process_speaker" =>
              \A k \in 1..Len(tasks[i].ret) :
                  /\ str_len(tasks[i].ret[k].subject) <= EMAIL_SUBJECT_MAX_LENGTH
                  /\ str_len(tasks[i].ret[k].body) <= EMAIL_BODY_MAX_LENGTH
    /\ \A k \in 1..Len(csv) :
          /\ str_len(csv[k].subject) <= EMAIL_SUBJECT_MAX_LENGTH
          /\ str_len(csv[k].body) <= EMAIL_BODY_MAX_LENGTH

\* main() has returned
Returned == mainpc \in {"exit", "done"}

\* C24: once the speaker source has returned zero records the run is over,
\* by a return of main(): no step is left, no record task exists, the
\* completion service was never called, the output is empty and the
\* emails-generated, processed and skipped counters are zero.
C24_EmptySourceEndsQuietly ==
    (apiKey /\ source = <<>> /\ mainpc \notin {"init", "fetch"}) =>
        /\ Returned
        /\ ~CanStep
        /\ tasks = <<>>
        /\ seen = {}
        /\ csv = <<>>
        /\ stats.total_speakers_scanned = 0
        /\ stats.emails_generated = 0
        /\ stats.speakers_processed = 0
        /\ stats.speakers_skipped = 0
        /\ stats.api_errors = 0

C24_Witness ==
    /\ apiKey
    /\ source = <<>>
    /\ speakers = <<>>
    /\ mainpc = "exit"

\* C25: every run that has ended has printed the end-of-run report, the run
\* with zero records included (stated for the runs that have their API key
\* and reach the speaker source).
C25_ReportAtEveryEnd == (apiKey /\ Returned) => reported

\* the local file was scraped and gave its records
LocalOk == scrape.local # <<>> /\ scrape.local[1].kind = "ret"

\* C26 as stated: fetch_speakers never raises; it returns the primary
\* location's records whenever the live scrape succeeds; when that scrape
\* fails, the fallback's records if the file exists and can be read; an
\* empty list when both fail.
C26_PrimaryWheneverItSucceeds ==
    /\ scrape.raised = <<>>
    /\ scrape.pc = "done" =>
          /\ scrape.live # <<>>
          /\ scrape.live[1].kind = "ret" =>
                scrape.ret = <<scrape.live[1].recs>>
          /\ (scrape.live[1].kind = "exc" /\ LocalOk) =>
                scrape.ret = <<scrape.local[1].recs>>
          /\ (scrape.live[1].kind = "exc" /\ ~LocalOk) =>
                scrape.ret = << <<>> >>

\* the live scrape gave at least one record
LiveOk ==
    /\ scrape.live # <<>>
    /\ scrape.live[1].kind = "ret"
    /\ scrape.live[1].recs # <<>>

\* C26 (amended): fetch_speakers never raises; the live scrape is tried
\* first and its records are returned when it succeeds with at least one
\* record; when it fails or gives no record, the fallback is read, if a path
\* is given and the file exists, and its records are returned if it can be
\* read; in every other case the result is an empty list.
C26_PrimaryWhenItHasRecords ==
    /\ scrape.raised = <<>>
    /\ scrape.local # <<>> =>
          scrape.live # <<>> /\ ~LiveOk /\ scrape.path /\ scrape.exists
    /\ scrape.pc = "done" =>
          /\ scrape.live # <<>>
          /\ LiveOk => scrape.ret = <<scrape.live[1].recs>>
          /\ (~LiveOk /\ LocalOk) => scrape.ret = <<scrape.local[1].recs>>
          /\ (~LiveOk /\ ~LocalOk) => scrape.ret = << <<>> >>
          /\ (~LiveOk /\ scrape.path /\ scrape.exists) => scrape.local # <<>>

C26_Witness ==
    /\ scrape.pc = "done"
    /\ scrape.live = <<Scraped("exc", <<>>)>>
    /\ LocalOk
    /\ Len(scrape.ret[1]) = 1

\* the reply as _classify_with_gemini reads it: trimmed and title-cased
Normalized(text) == str_title(str_strip(text))

ValidToken(text) ==
    Normalized(text) \in {<<"Builder">>, <<"Owner">>, <<"Other">>}

\* C27: with non-empty inputs and no manual-list match, a reply of the
\* service that is Builder, Owner or Other once trimmed and title-cased ends
\* the classification: categorize_company returns that token, whatever
\* keywords the title holds, and a reply to the first call makes that call
\* the only one.
C27_ServiceTokenReturned ==
    \A i \in Tasks :
        (tasks[i].caller = "direct" /\ tasks[i].fn = "cat"
         /\ ~DecidedManually(tasks[i].sp)) =>
            \A k \in 1..Len(tasks[i].hist) :
                (tasks[i].hist[k].kind = "reply"
                 /\ ValidToken(tasks[i].hist[k].text))
                => /\ k = Len(tasks[i].hist)
                   /\ tasks[i].pc = "done"
                   /\ tasks[i].raised = <<>>
                   /\ tasks[i].ret = Normalized(tasks[i].hist[k].text)

C27_Witness ==
    \E i \in Tasks :
        /\ UnitDone(i, "direct", "cat")
        /\ tasks[i].sp.title = <<"Project", " ", "Manager">>
        /\ tasks[i].sp.company = <<"ABC", " ", "Construction">>
        /\ tasks[i].hist = <<Outcome("reply", <<" ", "owner", "\n">>)>>
        /\ tasks[i].ret = <<"Owner">>

\* what the keyword heuristic owes a title: Builder with a builder keyword,
\* else Owner with an owner keyword, else Other
KeywordCategory(title) ==
    IF TextMatches(BUILDER_KEYWORDS, title) THEN "Builder"
    ELSE IF TextMatches(OWNER_KEYWORDS, title) THEN "Owner"
    ELSE "Other"

\* C28: a reply of the service whose token is not Builder, Owner or Other
\* is the last call of the classification: the service is not asked again
\* and categorize_company returns the keyword heuristic's result for the
\* title.
C28_InvalidTokenIsTerminal ==
    \A i \in Tasks :
        (tasks[i].caller = "direct" /\ tasks[i].fn = "cat") =>
            \A k \in 1..Len(tasks[i].hist) :
                (tasks[i].hist[k].kind = "reply"
                 /\ ~ValidToken(tasks[i].hist[k].text))
                => /\ k = Len(tasks[i].hist)
                   /\ tasks[i].pc = "done"
                   /\ tasks[i].raised = <<>>
                   /\ tasks[i].ret = <<KeywordCategory(tasks[i].sp.title)>>

C28_Witness ==
    \E i \in Tasks :
        /\ UnitDone(i, "direct", "cat")
        /\ tasks[i].sp.title = <<"Asset", " ", "Manager">>
        /\ tasks[i].hist = <<Outcome("reply", <<"InvalidCategory">>)>>
        /\ tasks[i].ret = <<"Owner">>

\* C29: _classify_by_keywords returns Builder for every title with a
\* builder keyword, an owner keyword or not; Owner for a title with an owner
\* keyword and no builder keyword; Other for a title with neither.
C29_BuilderBeforeOwner ==
    \A i \in Tasks :
        UnitDone(i, "direct", "kw") =>
            /\ TextMatches(BUILDER_KEYWORDS, tasks[i].sp.title)
                  => tasks[i].ret = <<"Builder">>
            /\ (~TextMatches(BUILDER_KEYWORDS, tasks[i].sp.title)
                /\ TextMatches(OWNER_KEYWORDS, tasks[i].sp.title))
                  => tasks[i].ret = <<"Owner">>
            /\ (~TextMatches(BUILDER_KEYWORDS, tasks[i].sp.title)
                /\ ~TextMatches(OWNER_KEYWORDS, tasks[i].sp.title))
                  => tasks[i].ret = <<"Other">>

C29_Witness ==
    \E i \in Tasks :
        /\ UnitDone(i, "direct", "kw")
        /\ tasks[i].sp.title = <<"Real", " ", "Estate", " ", "Developer">>
        /\ TextMatches(OWNER_KEYWORDS, tasks[i].sp.title)
        /\ tasks[i].ret = <<"Builder">>

\* generate_email ended on the reply `text` and returned `subject`, `body`
ParsedAs(i, text, subject, body) ==
    (/\ UnitDone(i, "direct", "gen")
     /\ tasks[i].hist # <<>>
     /\ tasks[i].hist[Len(tasks[i].hist)] = Outcome("reply", text))
    => tasks[i].ret = <<[subject |-> subject, body |-> body]>>

\* C30 as stated: the first marker line wins.  A second subject line leaves
\* the first subject, a second body line leaves the first body with its
\* continuation line, and a subject line after the body lines leaves the
\* body with its continuation line.
C30_FirstMarkerLineWins ==
    \A i \in Tasks :
        /\ ParsedAs(i, SecondSubjectReply(<<"Aerial insights">>,
                           <<"Visit booth #42">>, <<"Second subject">>),
                    <<"Aerial insights">>, <<"Visit booth #42">>)
        /\ ParsedAs(i, SecondBodyReply(<<"Aerial insights">>,
                           <<"Visit booth #42">>, <<"Free gift inside">>,
                           <<"Second body">>),
                    <<"Aerial insights">>,
                    <<"Visit booth #42", " ", "Free gift inside">>)
        /\ ParsedAs(i, SubjectAfterBodyReply(<<"Visit booth #42">>,
                           <<"Free gift inside">>, <<"Aerial insights">>,
                           <<"See you there">>),
                    <<"Aerial insights">>,
                    <<"Visit booth #42", " ", "Free gift inside">>)

\* C30 (amended): the last marker line of each kind wins.  A second subject
\* line replaces the subject and leaves the body; a second body line
\* replaces the body, its continuation line included, and leaves the
\* subject; a subject line after the body lines sets the subject, leaves the
\* body with its continuation line and ends the accumulation.
C30_LastMarkerLineWins ==
    \A i \in Tasks :
        /\ ParsedAs(i, SecondSubjectReply(<<"Aerial insights">>,
                           <<"Visit booth #42">>, <<"Second subject">>),
                    <<"Second subject">>, <<"Visit booth #42">>)
        /\ ParsedAs(i, SecondBodyReply(<<"Aerial insights">>,
                           <<"Visit booth #42">>, <<"Free gift inside">>,
                           <<"Second body">>),
                    <<"Aerial insights">>, <<"Second body">>)
        /\ ParsedAs(i, SubjectAfterBodyReply(<<"Visit booth #42">>,
                           <<"Free gift inside">>, <<"Aerial insights">>,
                           <<"See you there">>),
                    <<"Aerial insights">>,
                    <<"Visit booth #42", " ", "Free gift inside">>)

C30_Witness ==
    \E i \in Tasks :
        /\ UnitDone(i, "direct", "gen")
        /\ Len(tasks[i].hist) = 1
        /\ tasks[i].hist[1] =
              Outcome("reply",
                      SecondBodyReply(<<"Aerial insights">>,
                          <<"Visit booth #42">>, <<"Free gift inside">>,
                          <<"Second body">>))
        /\ tasks[i].ret[1].body = <<"Second body">>

\* the text neither starts nor ends with whitespace
Trimmed(text) ==
    text = <<>> \/ (~IsSpace(text[1]) /\ ~IsSpace(text[Len(text)]))

\* C31: when generate_email returns the subject and body parsed from a
\* reply, neither of them starts or ends with whitespace; the replies
\* include one whose body line is empty with the body text on the next
\* line.
C31_ParsedFieldsTrimmed ==
    \A i \in Tasks :
        (/\ UnitDone(i, "direct", "gen")
         /\ tasks[i].hist # <<>>
         /\ tasks[i].hist[Len(tasks[i].hist)].kind = "reply"
         /\ tasks[i].ret =
               <<parse_email_response(
                     str_strip(tasks[i].hist[Len(tasks[i].hist)].text))>>)
        => /\ tasks[i].ret[1].subject # <<>>
           /\ tasks[i].ret[1].body # <<>>
           /\ Trimmed(tasks[i].ret[1].subject)
           /\ Trimmed(tasks[i].ret[1].body)

\* the classified records that ended with a row, that were skipped, and
\* that ended on the API error of a failed email generation
WithRow == {i \in Classified : tasks[i].ret # <<>>}

Skipped == {i \in Classified : /\ tasks[i].category \notin {"Builder", "Owner"}
                               /\ tasks[i].pc = "done"
                               /\ tasks[i].ret = <<>>}

EmailFailed == {i \in Classified : /\ tasks[i].category \in {"Builder", "Owner"}
                                   /\ tasks[i].pc = "done"
                                   /\ tasks[i].ret = <<>>}

\* C32: at the end of a run emails_generated is the number of rows written,
\* every classified record is in exactly one of the three groups (row,
\* skipped, email failure), emails_generated and speakers_skipped count the
\* first two, and speakers_processed is the sum of the three.
C32_ClassifiedAccountedOnce ==
    mainpc \in {"done", "exit"} =>
        /\ stats.emails_generated = Len(csv)
        /\ stats.emails_generated = Cardinality(WithRow)
        /\ stats.speakers_skipped = Cardinality(Skipped)
        /\ Classified = WithRow \cup Skipped \cup EmailFailed
        /\ WithRow \cap Skipped = {}
        /\ WithRow \cap EmailFailed = {}
        /\ stats.speakers_processed =
              stats.emails_generated + stats.speakers_skipped
                  + Cardinality(EmailFailed)

C32_Witness ==
    /\ mainpc = "done"
    /\ stats.speakers_processed = TEST_MODE_LIMIT
    /\ stats.emails_generated = 3
    /\ stats.speakers_skipped = 2
    /\ Len(csv) = 3

\* C33: whatever the completion service does, api_errors stays 0 during a
\* run, and every record classified into a target category whose coroutine
\* has ended has returned a row, which is in the output once the run is
\* over.
C33_NoApiErrorEverCounted ==
    /\ stats.api_errors = 0
    /\ \A i \in Tasks :
          (/\ tasks[i].caller = "process_speaker"
           /\ tasks[i].pc = "done"
           /\ tasks[i].category \in {"Builder", "Owner"})
          => /\ Len(tasks[i].ret) = 1
             /\ mainpc = "done" =>
                   \E k \in 1..Len(csv) : csv[k] = tasks[i].ret[1]

C33_Witness ==
    /\ mainpc = "done"
    /\ seen = {"quota", "other"}
    /\ stats.api_errors = 0
    /\ Len(tasks) = 3
    /\ Len(csv) = 2
    /\ csv[1].category = "Builder"

\* C34: for one record, categorize_company and generate_email are each
\* invoked at most once (the wrapper never invokes them again), and within
\* the invocation under way the completion service has been called at most
\* RETRY_STOP_AFTER_ATTEMPT times: at most 3 calls to classify and 3 to
\* write the email, never 9.
C34_RetryLayersDoNotMultiply ==
    \A i \in Tasks :
        tasks[i].caller = "process_speaker" =>
            /\ tasks[i].catInv <= 1
            /\ tasks[i].genInv <= 1
            /\ tasks[i].calls <= RETRY_STOP_AFTER_ATTEMPT
            /\ tasks[i].attempt = 0
            /\ tasks[i].slept = <<>>

C34_Witness ==
    \E i \in Tasks :
        /\ tasks[i].caller = "process_speaker"
        /\ tasks[i].fn = "gen"
        /\ tasks[i].pc = "gemini"
        /\ tasks[i].calls = RETRY_STOP_AFTER_ATTEMPT
        /\ tasks[i].catInv = 1
        /\ tasks[i].genInv = 1
        /\ seen = {"quota"}

\* the row carries the name, title and company of the record
RowOfRecord(row, rec) ==
    row.name = rec.name /\ row.title = rec.title /\ row.company = rec.company

RECURSIVE InOrderOf(_, _)
\* the rows come from records of `recs`, in the order of `recs`
InOrderOf(rows, recs) ==
    IF rows = <<>> THEN TRUE
    ELSE IF recs = <<>> THEN FALSE
    ELSE IF RowOfRecord(Head(rows), Head(recs))
    THEN InOrderOf(Tail(rows), Tail(recs))
    ELSE InOrderOf(rows, Tail(recs))

\* C35: the rows written by a run are in the same relative order as their
\* records in the list the speaker source returned, for any cap and any
\* order in which the records' coroutines complete.
C35_RowsKeepInputOrder ==
    mainpc = "done" => InOrderOf(csv, speakers)

C35_Witness ==
    /\ mainpc = "done"
    /\ cap = MaxCap
    /\ \E i, j \in Tasks :
          /\ i < j
          /\ tasks[j].rank < tasks[i].rank
          /\ tasks[i].ret # <<>>
          /\ tasks[j].ret # <<>>
          /\ csv = tasks[i].ret \o tasks[j].ret
          /\ csv[1].name # csv[2].name

=============================================================================
